---- MODULE Spec2Model ----
(***************************************************************************)
(* Model of the starry-prx web proxy: the relay handler of /api/proxy, its *)
(* header filter and markup rewriter, and the history kept by the start    *)
(* page.                                                                   *)
(*                                                                         *)
(* Strings are TLA+ strings.  The library functions the code calls on them *)
(* (String.prototype.toLowerCase/startsWith/includes/trim, the WHATWG URL  *)
(* parser, encodeURIComponent, JSON) are given by their values on the      *)
(* strings that occur in the model.                                        *)
(***************************************************************************)
EXTENDS Integers, Sequences, FiniteSets, TLC

VARIABLES
    \* --- relay handler (one inbound request) ---
    pc,             \* position of handler: "start", "fetching", "reading", "done"
    query,          \* req.query.url, or NoParam when the parameter is absent
    url,            \* the parsed target (new URL(target)), or NoURL
    fetchCalls,     \* the URLs handed to fetch(), in order
    upstream,       \* the Response fetch() resolved with, or NoResponse
    failure,        \* what was thrown inside the try block, and where
    resStatusCode,  \* res.statusCode
    resHeaders,     \* headers set on res, keyed by lower-cased name
    resSent,        \* the bodies passed to res.send(), in order
    \* --- header filter applied on its own ---
    hdrIn, hdrOut,
    \* --- markup rewriter applied on its own ---
    htmlIn, baseIn, htmlOut,
    \* --- start page (pages/index.tsx) ---
    inputUrl,       \* the `url` state (text field)
    history,        \* the `history` state
    storage,        \* localStorage["proxyHistory"], or NoItem
    location,       \* window.location.href
    submits         \* number of submit events so far

handlerVars == <<pc, query, url, fetchCalls, upstream, failure,
                 resStatusCode, resHeaders, resSent>>
filterVars  == <<hdrIn, hdrOut>>
rewriteVars == <<htmlIn, baseIn, htmlOut>>
pageVars    == <<inputUrl, history, storage, location, submits>>
vars == <<handlerVars, filterVars, rewriteVars, pageVars>>

\* ------------------------------------------------------------------ bounds
MaxHeaders == 3     \* headers in one upstream header mapping (filter alone)
MaxElems   == 2     \* elements in one document (rewriter alone)
MaxSubmits == 3     \* submit events on the start page

\* ------------------------------------------------------- string library
Throws == "<<throws>>"      \* a call that raised an exception

ToLowerCase(s) ==
    CASE s = "Keep-Alive"              -> "keep-alive"
      [] s = "Proxy-Authorization"     -> "proxy-authorization"
      [] s = "TE"                      -> "te"
      [] s = "Transfer-Encoding"       -> "transfer-encoding"
      [] s = "UPGRADE"                 -> "upgrade"
      [] s = "Content-Security-Policy" -> "content-security-policy"
      [] s = "X-Frame-Options"         -> "x-frame-options"
      [] s = "SET-COOKIE"              -> "set-cookie"
      [] s = "Content-Type"            -> "content-type"
      [] s = "X-Custom"                -> "x-custom"
      [] s = "JavaScript:void(0)"      -> "javascript:void(0)"
      [] s = "MAILTO:a@b.com"          -> "mailto:a@b.com"
      [] OTHER                         -> s

StartsWith(s, prefix) ==
    CASE prefix = "#"           -> s \in {"#top", "#f"}
      [] prefix = "mailto:"     -> s \in {"mailto:a@b.com"}
      [] prefix = "tel:"        -> s \in {"tel:+15550100"}
      [] prefix = "javascript:" -> s \in {"javascript:void(0)"}
      [] prefix = "data:"       -> s \in {"data:image/png;base64,AA=="}
      [] prefix = "/"           -> s \in {"/x", "/submit"}
      [] OTHER                  -> FALSE

\* s.includes("text/html")
IncludesTextHtml(s) ==
    s \in {"text/html", "text/html; charset=utf-8", "text/html; charset=iso-8859-1"}

\* p1.trim().replace(/^['"]|['"]$/g, "")
TrimUnquote(s) ==
    CASE s = " 'img.png' " -> "img.png"
      [] s = "\"/x\""      -> "/x"
      [] OTHER             -> s

\* url.trim()
Trim(s) ==
    CASE s = " example.com " -> "example.com"
      [] s = "   "           -> ""
      [] OTHER               -> s

\* /^https?:\/\//i.test(raw)
HasHttpScheme(s) ==
    s \in {"https://example.com", "HTTP://A.test/p", "https://s3.test/",
           "https://s8.test", "http://"}

\* JSON.stringify of an array of strings, and JSON.parse of such a text
JSONStringify(array) == [json |-> array]
JSONParse(text) == text.json

\* new URL(s): the parsed URL as [protocol, href], or TypeErrorInvalidURL
TypeErrorInvalidURL == [throws |-> "TypeError: Invalid URL"]

URLParse(s) ==
    CASE s = "https://example.com/page" -> [protocol |-> "https:", href |-> "https://example.com/page"]
      [] s = "HTTPS://EXAMPLE.COM/page" -> [protocol |-> "https:", href |-> "https://example.com/page"]
      [] s = "http://example.com/page"  -> [protocol |-> "http:",  href |-> "http://example.com/page"]
      [] s = "ftp://example.com"        -> [protocol |-> "ftp:",   href |-> "ftp://example.com/"]
      [] s = "javascript:alert(1)"      -> [protocol |-> "javascript:", href |-> "javascript:alert(1)"]
      [] s = "https://other.org/y?q=1"  -> [protocol |-> "https:", href |-> "https://other.org/y?q=1"]
      [] s = "https://example.com"      -> [protocol |-> "https:", href |-> "https://example.com/"]
      [] s = "HTTP://A.test/p"          -> [protocol |-> "http:",  href |-> "http://a.test/p"]
      [] s = "https://s3.test/"         -> [protocol |-> "https:", href |-> "https://s3.test/"]
      [] s = "https://s8.test"          -> [protocol |-> "https:", href |-> "https://s8.test/"]
      [] s = "https://n1.test"          -> [protocol |-> "https:", href |-> "https://n1.test/"]
      [] s = "https://n2.test/a b"      -> [protocol |-> "https:", href |-> "https://n2.test/a%20b"]
      [] OTHER                          -> TypeErrorInvalidURL

\* the part of an absolute URL a reference starting with "/" is joined to
Origin(base) ==
    CASE base = "https://example.com/page"   -> "https://example.com"
      [] base = "http://example.com/page"    -> "http://example.com"
      [] base = "https://final.example/dir/" -> "https://final.example"

\* the part of an absolute URL a relative path is joined to
Directory(base) ==
    CASE base = "https://example.com/page"   -> "https://example.com/"
      [] base = "http://example.com/page"    -> "http://example.com/"
      [] base = "https://final.example/dir/" -> "https://final.example/dir/"

\* new URL(ref, base).toString(), or Throws
URLResolve(ref, base) ==
    IF URLParse(ref) # TypeErrorInvalidURL THEN URLParse(ref).href
    ELSE IF ref \in {"http://[bad", "https://exa mple.com/"} THEN Throws
    ELSE IF StartsWith(ref, "/") THEN Origin(base) \o ref
    ELSE Directory(base) \o ref

EncodeURIComponent(s) ==
    CASE s = "https://example.com/x"             -> "https%3A%2F%2Fexample.com%2Fx"
      [] s = "https://example.com/submit"        -> "https%3A%2F%2Fexample.com%2Fsubmit"
      [] s = "https://example.com/img.png"       -> "https%3A%2F%2Fexample.com%2Fimg.png"
      [] s = "http://example.com/x"              -> "http%3A%2F%2Fexample.com%2Fx"
      [] s = "http://example.com/submit"         -> "http%3A%2F%2Fexample.com%2Fsubmit"
      [] s = "http://example.com/img.png"        -> "http%3A%2F%2Fexample.com%2Fimg.png"
      [] s = "https://final.example/x"           -> "https%3A%2F%2Ffinal.example%2Fx"
      [] s = "https://final.example/submit"      -> "https%3A%2F%2Ffinal.example%2Fsubmit"
      [] s = "https://final.example/dir/img.png" -> "https%3A%2F%2Ffinal.example%2Fdir%2Fimg.png"
      [] s = "https://other.org/y?q=1"           -> "https%3A%2F%2Fother.org%2Fy%3Fq%3D1"
      [] s = "http://[bad"                       -> "http%3A%2F%2F%5Bbad"
      [] s = "https://exa mple.com/"             -> "https%3A%2F%2Fexa%20mple.com%2F"
      [] s = "https://example.com/"              -> "https%3A%2F%2Fexample.com%2F"
      [] s = "http://a.test/p"                   -> "http%3A%2F%2Fa.test%2Fp"
      [] s = "https://s3.test/"                  -> "https%3A%2F%2Fs3.test%2F"
      [] s = "https://s8.test/"                  -> "https%3A%2F%2Fs8.test%2F"
      [] s = "https://n1.test/"                  -> "https%3A%2F%2Fn1.test%2F"
      [] s = "https://n2.test/a%20b"             -> "https%3A%2F%2Fn2.test%2Fa%2520b"

\* ------------------------------------------------------ URL helpers
toAbsolute(ref, base) ==
    IF URLResolve(ref, base) # Throws THEN URLResolve(ref, base) ELSE ref

wrap(u) == "/api/proxy?url=" \o EncodeURIComponent(u)

\* --------------------------------------------------- filterResponseHeaders
\* A header mapping is a function from header names to values.
NoHeaders == [k \in {} |-> ""]

hopByHop == {"connection", "keep-alive", "proxy-authenticate", "proxy-authorization",
             "te", "trailer", "transfer-encoding", "upgrade"}

\* PassesFilter comparing the name as received, not its lower-case form
PassesFilter_CaseSensitive(key) ==
    /\ key \notin hopByHop
    /\ ~(key = "content-security-policy" \/ key = "x-frame-options")
    /\ key # "set-cookie"

\* the callback of headers.forEach: TRUE when the header is copied to out
PassesFilter(key) ==
    LET k == ToLowerCase(key)
    IN  /\ k \notin hopByHop
        /\ ~(k = "content-security-policy" \/ k = "x-frame-options")
        /\ k # "set-cookie"

filterResponseHeaders(headers) ==
    LET kept == {key \in DOMAIN headers : PassesFilter(key)}
        out  == [key \in kept |-> headers[key]]
    IN  IF ~(\E k \in kept : ToLowerCase(k) = "content-type")
        THEN out @@ ("Content-Type" :> "text/plain; charset=utf-8")
        ELSE out

\* ------------------------------------------------------------ rewriteHtml
\* A document is the sequence of its elements in document order.  An element
\* is [tag, attrs, css]: attrs maps the attribute names it carries to their
\* values; css is the text of a style element as a sequence of pieces, each
\* either plain text or one match of /url\(([^)]+)\)/ with its group p1.
NoAttrs == [k \in {} |-> ""]

attrTargets == ("a" :> "href") @@ ("link" :> "href") @@ ("img" :> "src")
            @@ ("script" :> "src") @@ ("iframe" :> "src") @@ ("source" :> "src")
            @@ ("video" :> "src") @@ ("audio" :> "src") @@ ("form" :> "action")

\* the early returns of the .each callback: TRUE when the value is left alone
Skipped(el, attr) ==
    \/ attr \notin DOMAIN el.attrs
    \/ el.attrs[attr] = ""
    \/ StartsWith(el.attrs[attr], "#")
    \/ LET low == ToLowerCase(el.attrs[attr])
       IN  \/ StartsWith(low, "mailto:")
           \/ StartsWith(low, "tel:")
           \/ StartsWith(low, "javascript:")

\* $(el).attr(name, value)
SetAttr(attrs, name, value) ==
    [k \in DOMAIN attrs \cup {name} |-> IF k = name THEN value ELSE attrs[k]]

\* the .each callback on one element matched by (tag, attr)
RewriteAttr(el, attr, baseUrl) ==
    IF Skipped(el, attr) THEN el
    ELSE LET abs    == toAbsolute(el.attrs[attr], baseUrl)
             forced == IF el.tag = "form"
                       THEN SetAttr(el.attrs, "method", "GET")
                       ELSE el.attrs
         IN  [el EXCEPT !.attrs = SetAttr(forced, attr, wrap(abs))]

\* the replacer of css.replace on one piece
RewriteCssPiece(piece, baseUrl) ==
    IF piece.kind # "url" THEN piece
    ELSE LET raw == TrimUnquote(piece.s)
         IN  IF StartsWith(raw, "data:") THEN piece
             ELSE [kind |-> "url", s |-> wrap(toAbsolute(raw, baseUrl))]

RewriteElement(el, baseUrl) ==
    IF el.tag \in DOMAIN attrTargets
    THEN RewriteAttr(el, attrTargets[el.tag], baseUrl)
    ELSE IF el.tag = "style"
    THEN [el EXCEPT !.css = [i \in 1..Len(el.css) |-> RewriteCssPiece(el.css[i], baseUrl)]]
    ELSE el

\* The result: the toolbar prepended to body (it shows baseUrl) and the
\* rewritten elements.
rewriteHtml(html, baseUrl) ==
    [toolbar |-> baseUrl,
     elems   |-> [i \in 1..Len(html) |-> RewriteElement(html[i], baseUrl)]]

\* ------------------------------------------------ idle values of the parts
NoParam    == "<<undefined>>"          \* req.query.url is undefined
NoURL      == [unset |-> TRUE]         \* `let url` before its assignment
NoResponse == [none |-> TRUE]          \* fetch() has not resolved
NoFailure  == [at |-> "none", message |-> "", name |-> ""]
NotRun     == [notrun |-> TRUE]        \* a function that has not been applied
NoItem     == [null |-> TRUE]          \* localStorage.getItem() returns null

HandlerIdle ==
    /\ pc = "idle" /\ query = NoParam /\ url = NoURL /\ fetchCalls = <<>>
    /\ upstream = NoResponse /\ failure = NoFailure
    /\ resStatusCode = 200 /\ resHeaders = NoHeaders /\ resSent = <<>>
FilterIdle  == hdrIn = NoHeaders /\ hdrOut = NotRun
RewriteIdle == htmlIn = <<>> /\ baseIn = "" /\ htmlOut = NotRun
PageIdle    ==
    /\ inputUrl = "" /\ history = <<>> /\ storage = NoItem
    /\ location = "/" /\ submits = 0

\* ------------------------------------------- the header filter on its own
HeaderNames ==
    {"connection", "Keep-Alive", "proxy-authenticate", "Proxy-Authorization",
     "TE", "trailer", "Transfer-Encoding", "UPGRADE",
     "Content-Security-Policy", "X-Frame-Options", "SET-COOKIE", "set-cookie",
     "content-type", "Content-Type", "cache-control", "X-Custom"}
HeaderValues == {"v1", "v2"}

HeaderMappings ==
    UNION {[names -> HeaderValues] :
             names \in {n \in SUBSET HeaderNames : Cardinality(n) <= MaxHeaders}}

InitFilter ==
    /\ hdrIn \in HeaderMappings
    /\ hdrOut = NotRun
    /\ HandlerIdle /\ RewriteIdle /\ PageIdle

ApplyFilter ==
    /\ hdrOut = NotRun
    /\ hdrOut' = filterResponseHeaders(hdrIn)
    /\ UNCHANGED <<hdrIn, handlerVars, rewriteVars, pageVars>>

SpecFilter == InitFilter /\ [][ApplyFilter]_vars

\* ----------------------------------------- the markup rewriter on its own
Anchors ==
    {[tag |-> "a", attrs |-> NoAttrs, css |-> <<>>]} \cup
    {[tag |-> "a", attrs |-> ("href" :> h), css |-> <<>>] :
        h \in {"", "/x", "#top", "mailto:a@b.com", "MAILTO:a@b.com", "tel:+15550100",
               "JavaScript:void(0)", "https://other.org/y?q=1", "http://[bad"}}
Images ==
    {[tag |-> "img", attrs |-> ("src" :> v), css |-> <<>>] :
        v \in {"img.png", "https://exa mple.com/"}}
FormAttrs ==
    {NoAttrs} \cup
    {("method" :> m) : m \in {"POST", "get"}} \cup
    {("action" :> a) : a \in {"", "#f", "/submit", "JavaScript:void(0)", "http://[bad"}} \cup
    {("action" :> a) @@ ("method" :> m) :
        a \in {"", "#f", "/submit", "JavaScript:void(0)", "http://[bad"}, m \in {"POST", "get"}}
Forms == {[tag |-> "form", attrs |-> fa, css |-> <<>>] : fa \in FormAttrs}
CssPieces ==
    {[kind |-> "text", s |-> ".a{color:red}"]} \cup
    {[kind |-> "url", s |-> p1] :
        p1 \in {"/x", "\"/x\"", " 'img.png' ", "data:image/png;base64,AA==", "http://[bad"}}
Styles ==
    {[tag |-> "style", attrs |-> NoAttrs, css |-> c] :
        c \in {<<p>> : p \in CssPieces} \cup {<<p, q>> : p \in CssPieces, q \in CssPieces}}
Others == {[tag |-> "p", attrs |-> ("href" :> "/x"), css |-> <<>>]}

Elements == Anchors \cup Images \cup Forms \cup Styles \cup Others
Documents == UNION {[1..n -> Elements] : n \in 0..MaxElems}
BaseUrls == {"https://example.com/page", "https://final.example/dir/"}

InitRewrite ==
    /\ htmlIn \in Documents
    /\ baseIn \in BaseUrls
    /\ htmlOut = NotRun
    /\ HandlerIdle /\ FilterIdle /\ PageIdle

ApplyRewrite ==
    /\ htmlOut = NotRun
    /\ htmlOut' = rewriteHtml(htmlIn, baseIn)
    /\ UNCHANGED <<htmlIn, baseIn, handlerVars, filterVars, pageVars>>

SpecRewrite == InitRewrite /\ [][ApplyRewrite]_vars

\* ----------------------------------------------------------- the handler
\* The inbound request: req.query.url.
Queries ==
    {NoParam, "", "not a url", "ftp://example.com", "javascript:alert(1)",
     "https://example.com/page", "HTTPS://EXAMPLE.COM/page", "http://example.com/page"}

\* What the origin can answer.  Header names are lower-case, as the Headers
\* object of a fetch Response yields them.
UpstreamStatuses == {200, 404, 500}
UpstreamHeaders ==
    {("content-type" :> "text/html; charset=utf-8"),
     ("content-type" :> "text/html; charset=iso-8859-1")
        @@ ("set-cookie" :> "v1") @@ ("x-frame-options" :> "v2"),
     ("content-type" :> "text/html") @@ ("cache-control" :> "v1"),
     ("content-type" :> "image/png") @@ ("cache-control" :> "v1"),
     ("content-type" :> "TEXT/HTML"),
     ("connection" :> "v1")}
UpstreamBodies ==
    {<<[tag |-> "a", attrs |-> ("href" :> "/x"), css |-> <<>>]>>,
     <<[tag |-> "img", attrs |-> ("src" :> "img.png"), css |-> <<>>],
       [tag |-> "form", attrs |-> ("action" :> "/submit") @@ ("method" :> "POST"), css |-> <<>>]>>}
RedirectTarget == "https://final.example/dir/"

\* the Responses fetch(requested) can resolve with; url is Response.url, the
\* URL that served the document after redirects were followed
Responses(requested) ==
    [url : {requested, RedirectTarget}, status : UpstreamStatuses,
     headers : UpstreamHeaders, body : UpstreamBodies]

\* the errors a rejected fetch() or body read can carry
Errors ==
    {[message |-> "fetch failed", name |-> "TypeError"],
     [message |-> "getaddrinfo ENOTFOUND example.com", name |-> "Error"],
     [message |-> "", name |-> "Error"]}

\* String(err) of an Error without message is its name
ErrorText(err) == IF err.message # "" THEN err.message ELSE err.name

\* upstream.headers.get("content-type") || ""
contentType ==
    IF "content-type" \in DOMAIN upstream.headers
    THEN upstream.headers["content-type"] ELSE ""
isHtml == IncludesTextHtml(contentType)

\* res.setHeader(name, value): header names are case-insensitive
SetHeader(h, name, value) ==
    [k \in DOMAIN h \cup {ToLowerCase(name)} |->
        IF k = ToLowerCase(name) THEN value ELSE h[k]]

\* Object.entries(headers).forEach(([k, v]) => res.setHeader(k, v)); the
\* names of a filtered fetch header mapping differ in their lower-case forms
SetHeaders(h, out) ==
    LET lows == {ToLowerCase(k) : k \in DOMAIN out}
    IN  [l \in DOMAIN h \cup lows |->
            IF l \in lows
            THEN out[CHOOSE k \in DOMAIN out : ToLowerCase(k) = l]
            ELSE h[l]]

\* res.status(code).send(body), then the handler returns
Respond(code, body) ==
    /\ resStatusCode' = code
    /\ resSent' = Append(resSent, body)
    /\ pc' = "done"

InitHandler ==
    /\ pc = "start"
    /\ query \in Queries
    /\ url = NoURL
    /\ fetchCalls = <<>>
    /\ upstream = NoResponse
    /\ failure = NoFailure
    /\ resStatusCode = 200
    /\ resHeaders = NoHeaders
    /\ resSent = <<>>
    /\ FilterIdle /\ RewriteIdle /\ PageIdle

\* (req.query.url as string) || ""
target == IF query = NoParam THEN "" ELSE query

\* Validate without the scheme check
Validate_NoSchemeCheck ==
    /\ pc = "start"
    /\ IF target = ""
       THEN /\ Respond(400, "Missing ?url= parameter")
            /\ UNCHANGED <<url, fetchCalls, resHeaders>>
       ELSE IF URLParse(target) = TypeErrorInvalidURL
       THEN /\ Respond(400, "Invalid URL")
            /\ UNCHANGED <<url, fetchCalls, resHeaders>>
       ELSE /\ url' = URLParse(target)
            /\ fetchCalls' = Append(fetchCalls, URLParse(target).href)
            /\ pc' = "fetching"
            /\ UNCHANGED <<resStatusCode, resHeaders, resSent>>
    /\ UNCHANGED <<query, upstream, failure, filterVars, rewriteVars, pageVars>>

\* the three checks, and the call of fetch that follows them
Validate ==
    /\ pc = "start"
    /\ IF target = ""
       THEN /\ Respond(400, "Missing ?url= parameter")
            /\ UNCHANGED <<url, fetchCalls, resHeaders>>
       ELSE IF URLParse(target) = TypeErrorInvalidURL
       THEN /\ Respond(400, "Invalid URL")
            /\ UNCHANGED <<url, fetchCalls, resHeaders>>
       ELSE IF URLParse(target).protocol \notin {"http:", "https:"}
       THEN /\ url' = URLParse(target)
            /\ Respond(400, "Only http/https supported")
            /\ UNCHANGED <<fetchCalls, resHeaders>>
       ELSE /\ url' = URLParse(target)
            /\ fetchCalls' = Append(fetchCalls, URLParse(target).href)
            /\ pc' = "fetching"
            /\ UNCHANGED <<resStatusCode, resHeaders, resSent>>
    /\ UNCHANGED <<query, upstream, failure, filterVars, rewriteVars, pageVars>>

\* the catch block
Catch(at, err) ==
    /\ failure' = [at |-> at, message |-> err.message, name |-> err.name]
    /\ Respond(502, "Upstream fetch failed: " \o ErrorText(err))
    /\ UNCHANGED <<query, url, fetchCalls, upstream, resHeaders,
                   filterVars, rewriteVars, pageVars>>

\* FetchFails issuing the fetch again instead of answering
FetchFails_Retry ==
    /\ pc = "fetching"
    /\ fetchCalls' = Append(fetchCalls, url.href)
    /\ UNCHANGED <<pc, query, url, upstream, failure, resStatusCode, resHeaders,
                   resSent, filterVars, rewriteVars, pageVars>>

\* await fetch(...) rejects: transport failure
FetchFails ==
    /\ pc = "fetching"
    /\ \E err \in Errors : Catch("fetch", err)

\* await fetch(...) resolves; the body read is started
FetchReturns ==
    /\ pc = "fetching"
    /\ \E r \in Responses(url.href) : upstream' = r
    /\ pc' = "reading"
    /\ UNCHANGED <<query, url, fetchCalls, failure, resStatusCode, resHeaders,
                   resSent, filterVars, rewriteVars, pageVars>>

\* BodyReadFails with the body read outside the try block
BodyReadFails_Unhandled ==
    /\ pc = "reading"
    /\ \E err \in Errors :
          failure' = [at |-> "body", message |-> err.message, name |-> err.name]
    /\ pc' = "done"
    /\ UNCHANGED <<query, url, fetchCalls, upstream, resStatusCode, resHeaders,
                   resSent, filterVars, rewriteVars, pageVars>>

\* await upstream.arrayBuffer() / upstream.text() rejects
BodyReadFails ==
    /\ pc = "reading"
    /\ \E err \in Errors : Catch("body", err)

\* rewriteHtml throws on the text that was read
RewriteThrows ==
    /\ pc = "reading"
    /\ isHtml
    /\ Catch("rewrite", [message |-> "Maximum call stack size exceeded",
                         name |-> "RangeError"])

\* the non-HTML branch after the body was read
RelayRaw ==
    /\ resHeaders' = SetHeaders(
            SetHeader(resHeaders, "Content-Type",
                      IF contentType # "" THEN contentType ELSE "application/octet-stream"),
            filterResponseHeaders(upstream.headers))
    /\ Respond(upstream.status, upstream.body)

\* RelayHtml sending without res.status(status)
RelayHtml_DefaultStatus ==
    /\ resHeaders' = SetHeaders(
            SetHeader(resHeaders, "Content-Type", "text/html; charset=utf-8"),
            filterResponseHeaders(upstream.headers))
    /\ Respond(resStatusCode, rewriteHtml(upstream.body, url.href))

\* the HTML branch after the text was read
RelayHtml ==
    /\ resHeaders' = SetHeaders(
            SetHeader(resHeaders, "Content-Type", "text/html; charset=utf-8"),
            filterResponseHeaders(upstream.headers))
    /\ Respond(upstream.status, rewriteHtml(upstream.body, url.href))

\* the body read resolves and the response is written
BodyRead ==
    /\ pc = "reading"
    /\ IF ~isHtml THEN RelayRaw ELSE RelayHtml
    /\ UNCHANGED <<query, url, fetchCalls, upstream, failure,
                   filterVars, rewriteVars, pageVars>>

NextHandler ==
    \/ Validate
    \/ FetchFails
    \/ FetchReturns
    \/ BodyReadFails
    \/ RewriteThrows
    \/ BodyRead

SpecHandler == InitHandler /\ [][NextHandler]_vars

\* --------------------------------------------------------- the start page
HistoryLimit == 8

\* what the user can type into the text field
RawInputs ==
    {"example.com", " example.com ", "https://example.com", "HTTP://A.test/p",
     "https://s3.test/", "s8.test", "https://s8.test", "n1.test", "n2.test/a b",
     "", "   ", "exa mple", "http://"}

\* what an earlier visit can have left in localStorage
StoredUrls ==
    <<"https://s1.test/", "https://s2.test/", "https://s3.test/", "https://s4.test/",
      "https://s5.test/", "https://s6.test/", "https://s7.test/", "https://s8.test/">>
StoredItems ==
    {NoItem} \cup {JSONStringify(SubSeq(StoredUrls, 1, n)) : n \in 0..HistoryLimit}

\* JSON.parse(localStorage.getItem("proxyHistory") || "[]")
StoredHistory ==
    JSONParse(IF storage = NoItem THEN JSONStringify(<<>>) ELSE storage)

normalize(raw) ==
    LET parsed == IF ~HasHttpScheme(raw)
                  THEN URLParse("https://" \o raw)
                  ELSE URLParse(raw)
    IN  IF parsed = TypeErrorInvalidURL THEN "" ELSE parsed.href

\* history.filter(h => h !== n)
RECURSIVE Without(_, _)
Without(h, n) ==
    IF h = <<>> THEN <<>>
    ELSE IF Head(h) = n THEN Without(Tail(h), n)
    ELSE <<Head(h)>> \o Without(Tail(h), n)

\* array.slice(0, k)
Slice0(array, k) == SubSeq(array, 1, IF Len(array) < k THEN Len(array) ELSE k)

\* Updated without the de-duplicating filter
Updated_NoDedup(n) == Slice0(<<n>> \o history, HistoryLimit)

\* [n, ...history.filter(h => h !== n)].slice(0, 8)
Updated(n) == Slice0(<<n>> \o Without(history, n), HistoryLimit)

InitPage ==
    /\ storage \in StoredItems
    /\ history = StoredHistory
    /\ inputUrl = ""
    /\ location = "/"
    /\ submits = 0
    /\ HandlerIdle /\ FilterIdle /\ RewriteIdle

\* onChange of the text field
TypeUrl ==
    /\ location = "/"
    /\ \E raw \in RawInputs : inputUrl' = raw
    /\ UNCHANGED <<history, storage, location, submits,
                   handlerVars, filterVars, rewriteVars>>

\* onSubmit of the form
submit ==
    /\ location = "/"
    /\ submits < MaxSubmits
    /\ submits' = submits + 1
    /\ LET n == normalize(Trim(inputUrl))
       IN  IF n = ""
           THEN UNCHANGED <<history, storage, location>>
           ELSE /\ history' = Updated(n)
                /\ storage' = JSONStringify(Updated(n))
                /\ location' = "/api/proxy?url=" \o EncodeURIComponent(n)
    /\ UNCHANGED <<inputUrl, handlerVars, filterVars, rewriteVars>>

\* the user comes back to the start page: Home is mounted again
Load ==
    /\ location # "/"
    /\ location' = "/"
    /\ inputUrl' = ""
    /\ history' = StoredHistory
    /\ UNCHANGED <<storage, submits, handlerVars, filterVars, rewriteVars>>

NextPage == TypeUrl \/ submit \/ Load

SpecPage == InitPage /\ [][NextPage]_vars

\* =================================================================== claims

\* the handler has answered 400 with this body and has made no network call
Rejected(body) ==
    /\ pc = "done"
    /\ resStatusCode = 400
    /\ resSent = <<body>>
    /\ fetchCalls = <<>>

\* C1: fetch is issued only for a target that is non-empty, parses and has
\* scheme http or https; an empty or missing url ends with 400 "Missing ?url=
\* parameter", an unparsable one with 400 "Invalid URL", another scheme with
\* 400 "Only http/https supported", each without any network call.
C1_ValidationBeforeFetch ==
    /\ fetchCalls # <<>> =>
          /\ target # ""
          /\ URLParse(target) # TypeErrorInvalidURL
          /\ URLParse(target).protocol \in {"http:", "https:"}
    /\ pc # "start" =>
          IF target = "" THEN Rejected("Missing ?url= parameter")
          ELSE IF URLParse(target) = TypeErrorInvalidURL THEN Rejected("Invalid URL")
          ELSE IF URLParse(target).protocol \notin {"http:", "https:"}
               THEN Rejected("Only http/https supported")
          ELSE Len(fetchCalls) = 1

C1_Witness ==
    /\ pc = "done"
    /\ query = "ftp://example.com"
    /\ resSent = <<"Only http/https supported">>

\* C2 as stated: whenever fetch returned a response with status s, the
\* response sent to the client has status s, in all cases.
C2_StatusAlwaysPropagated ==
    (pc = "done" /\ upstream # NoResponse) => resStatusCode = upstream.status

\* C2 amended: whenever fetch returned a response with status s and the body
\* was then read (and, for HTML, rewritten) without an exception, the single
\* response sent has status s, on both branches.
C2_StatusPropagatedOnSuccess ==
    (pc = "done" /\ upstream # NoResponse /\ failure = NoFailure) =>
        /\ resStatusCode = upstream.status
        /\ Len(resSent) = 1

C2_Witness ==
    /\ pc = "done"
    /\ upstream # NoResponse
    /\ failure = NoFailure
    /\ upstream.status = 404
    /\ isHtml

\* C3: when the upstream Content-Type contains text/html, the relayed
\* response carries Content-Type exactly "text/html; charset=utf-8".
C3_HtmlContentTypeIsUtf8 ==
    (pc = "done" /\ upstream # NoResponse /\ failure = NoFailure /\ isHtml) =>
        /\ "content-type" \in DOMAIN resHeaders
        /\ resHeaders["content-type"] = "text/html; charset=utf-8"

\* C4: on the HTML branch the document sent is the upstream document
\* rewritten against the URL that finally served it (Response.url).
C4_BaseIsFinalUrl ==
    (pc = "done" /\ upstream # NoResponse /\ failure = NoFailure /\ isHtml) =>
        resSent = <<rewriteHtml(upstream.body, upstream.url)>>

\* C5: a fetch that fails at transport level is answered with 502 and
\* "Upstream fetch failed: <message>", and fetch is issued at most once per
\* inbound request.
C5_TransportFailureIs502 ==
    /\ Len(fetchCalls) <= 1
    /\ failure.at = "fetch" =>
          /\ pc = "done"
          /\ resStatusCode = 502
          /\ Len(resSent) = 1
          /\ failure.message # "" =>
                resSent[1] = "Upstream fetch failed: " \o failure.message
          /\ upstream = NoResponse

C5_Witness ==
    /\ pc = "done"
    /\ failure.at = "fetch"
    /\ failure.message = "getaddrinfo ENOTFOUND example.com"
    /\ Len(fetchCalls) = 1

\* the names the header policy drops, in lower case
C6_Dropped ==
    {"connection", "keep-alive", "proxy-authenticate", "proxy-authorization", "te",
     "trailer", "transfer-encoding", "upgrade", "content-security-policy",
     "x-frame-options", "set-cookie"}

\* C6: the filtered mapping holds no header whose lower-cased name is in the
\* dropped set, whatever the case of the input name, and every other input
\* header is in it with its value unchanged.
C6_FilterDropsAndPreserves ==
    hdrOut # NotRun =>
        /\ \A k \in DOMAIN hdrOut : ToLowerCase(k) \notin C6_Dropped
        /\ \A k \in DOMAIN hdrIn :
              ToLowerCase(k) \notin C6_Dropped =>
                  (k \in DOMAIN hdrOut /\ hdrOut[k] = hdrIn[k])

C6_Witness ==
    /\ hdrOut # NotRun
    /\ DOMAIN hdrIn = {"SET-COOKIE", "Content-Security-Policy", "X-Custom"}
    /\ DOMAIN hdrOut = {"X-Custom", "Content-Type"}

\* C7: a reference that cannot be resolved against the base is left as it
\* was, not wrapped, and every other rewritable reference is rewritten.
C7_UnresolvableLeftUnmodified ==
    htmlOut # NotRun =>
        \A i \in 1..Len(htmlIn) :
            LET el  == htmlIn[i]
                out == htmlOut.elems[i]
            IN  /\ (el.tag \in DOMAIN attrTargets /\ ~Skipped(el, attrTargets[el.tag])) =>
                      LET v == el.attrs[attrTargets[el.tag]]
                      IN  out.attrs[attrTargets[el.tag]] =
                              IF URLResolve(v, baseIn) = Throws THEN v
                              ELSE wrap(URLResolve(v, baseIn))
                /\ el.tag = "style" =>
                      \A j \in 1..Len(el.css) :
                          LET raw == TrimUnquote(el.css[j].s)
                          IN  (el.css[j].kind = "url" /\ ~StartsWith(raw, "data:")) =>
                                  out.css[j] =
                                      IF URLResolve(raw, baseIn) = Throws THEN el.css[j]
                                      ELSE [kind |-> "url", s |-> wrap(URLResolve(raw, baseIn))]

\* C8: after rewriteHtml every form of the input has method GET, whether its
\* action was rewritten or skipped, and a rewritten action is
\* wrap(resolve(action, base)).
C8_EveryFormIsGet ==
    htmlOut # NotRun =>
        \A i \in 1..Len(htmlIn) :
            htmlIn[i].tag = "form" =>
                LET out == htmlOut.elems[i]
                IN  /\ "method" \in DOMAIN out.attrs
                    /\ out.attrs["method"] = "GET"
                    /\ ~Skipped(htmlIn[i], "action") =>
                          out.attrs["action"] =
                              wrap(toAbsolute(htmlIn[i].attrs["action"], baseIn))

\* the index of x in the sequence h, 0 when it is not there
IndexOf(h, x) ==
    IF \E i \in 1..Len(h) : h[i] = x
    THEN CHOOSE i \in 1..Len(h) : h[i] = x
    ELSE 0

C9_HistoryShape ==
    /\ Len(history) <= 8
    /\ \A i, j \in 1..Len(history) : history[i] = history[j] => i = j
    /\ history = StoredHistory

C9_SubmitStep ==
    submits' = submits + 1 =>
        LET n == normalize(Trim(inputUrl))
        IN  IF n = ""
            THEN history' = history /\ storage' = storage
            ELSE /\ history'[1] = n
                 /\ storage' # NoItem
                 /\ JSONParse(storage') = history'
                 \* the other entries keep their order, and only the oldest is lost
                 /\ \A i \in 2..Len(history') :
                       /\ IndexOf(history, history'[i]) > 0
                       /\ \A j \in 2..Len(history') :
                             i < j => IndexOf(history, history'[i]) < IndexOf(history, history'[j])
                 /\ \A i \in 1..Len(history) :
                        (history[i] # n /\ IndexOf(history', history[i]) = 0) =>
                            (Len(history') = 8 /\ i = Len(history))

\* C9: from a stored history of at most 8 distinct entries, the history
\* always has at most 8 entries, no duplicate, and equals what is persisted;
\* a successful submit puts its URL first and keeps the others in order; a
\* submit whose input does not normalize leaves the history unchanged.
C9_HistoryBoundedDistinctRecentFirst ==
    []C9_HistoryShape /\ [][C9_SubmitStep]_vars

C9_Witness ==
    /\ submits > 0
    /\ Len(history) = 8
    /\ history[1] = "https://s3.test/"
    /\ history[2] = "https://n1.test/"
    /\ history[8] = "https://s7.test/"

\* C10: the handler sends exactly one response; nothing of the response is
\* written before the body has been read; a failure while reading or
\* rewriting the body is answered with one 502 "Upstream fetch failed: ...".
C10_OneResponseAfterBodyRead ==
    /\ pc = "done" => Len(resSent) = 1
    /\ pc # "done" =>
          (resSent = <<>> /\ resHeaders = NoHeaders /\ resStatusCode = 200)
    /\ failure.at \in {"body", "rewrite"} =>
          /\ pc = "done"
          /\ upstream # NoResponse
          /\ resStatusCode = 502
          /\ resHeaders = NoHeaders
          /\ resSent = <<"Upstream fetch failed: " \o
                            (IF failure.message # "" THEN failure.message ELSE failure.name)>>

C10_Witness ==
    /\ pc = "done"
    /\ failure.at = "body"
    /\ upstream # NoResponse
    /\ upstream.status = 200
    /\ resStatusCode = 502

====
